---- MODULE Spec2Model ----
(***************************************************************************)
(* Model of the rom1504.github.io client: MainPage (the router and         *)
(* composition root) and BlogPage (the post view with its asynchronous     *)
(* init).  Strings are sequences of one-character strings, so that         *)
(* startsWith, split, slice and join are computed as JavaScript computes   *)
(* them.                                                                   *)
(***************************************************************************)
EXTENDS Naturals, Sequences, FiniteSets

VARIABLES
  location,             \* window.location.pathname
  page,                 \* what MainPage.pages() returned at the last render
  blogs,                \* the registry imported from ./blogs.js
  assets,               \* ./assets/<id>.md : the text of each document, or Missing
  blog,                 \* per BlogPage instance: this.blog
  blogMd,               \* per BlogPage instance: this.blogMd
  headers,              \* per BlogPage instance: this.headers
  pc,                   \* per BlogPage instance: where its lifecycle/init() stands
  connected,            \* per BlogPage instance: still mounted in the document
  fetches,              \* instances whose import() is in flight
  fetchCount,           \* per BlogPage instance: number of import() calls issued
  rendered,             \* per BlogPage instance: what render() last returned
  unhandledRejections   \* instances whose init() promise rejected with no handler

vars == <<location, page, blogs, assets, blog, blogMd, headers, pc, connected,
          fetches, fetchCount, rendered, unhandledRejections>>

instanceVars == <<blog, blogMd, headers, pc, connected, fetches, fetchCount,
                  rendered, unhandledRejections>>

----------------------------------------------------------------------------
(* Bounds *)

MaxInstances == 2       \* BlogPage instances created in one behaviour
MaxSegments == 3        \* "/"-delimited segments of a path given to the router
MaxDocLen == 5          \* characters of a document given to the resolver

----------------------------------------------------------------------------
(* String literals, as character sequences *)

SLASH == <<"/">>
NL == <<"\n">>
EMPTY == <<>>
BLOG == <<"b", "l", "o", "g">>
FOO == <<"f", "o", "o">>
BAR == <<"b", "a", "r">>
ROOT_PATH == <<"/">>
BLOG_PATH == <<"/", "b", "l", "o", "g">>

\* JavaScript's undefined, kept apart from every character sequence
Undefined == <<"undefined">>
\* a document the store cannot supply
Missing == <<"missing">>

----------------------------------------------------------------------------
(* JavaScript built-ins used by the source *)

Min(a, b) == IF a < b THEN a ELSE b

\* String.prototype.startsWith
startsWith(s, prefix) ==
  Len(s) >= Len(prefix) /\ SubSeq(s, 1, Len(prefix)) = prefix

\* String.prototype.split on a one-character separator
RECURSIVE split(_, _)
split(s, sep) ==
  IF \E k \in 1..Len(s) : s[k] = sep[1]
    THEN LET k == CHOOSE j \in 1..Len(s) :
                    s[j] = sep[1] /\ \A h \in 1..(j - 1) : s[h] # sep[1]
         IN  <<SubSeq(s, 1, k - 1)>> \o split(SubSeq(s, k + 1, Len(s)), sep)
    ELSE <<s>>

\* Array.prototype.join
RECURSIVE join(_, _)
join(arr, sep) ==
  IF Len(arr) = 0 THEN EMPTY
  ELSE IF Len(arr) = 1 THEN arr[1]
  ELSE arr[1] \o sep \o join(Tail(arr), sep)

\* Array.prototype.slice(from, to), zero-based, to exclusive
slice(arr, from, to) == SubSeq(arr, from + 1, Min(to, Len(arr)))

\* Array.prototype.slice(from)
sliceFrom(arr, from) == SubSeq(arr, from + 1, Len(arr))

\* arr[k], zero-based: undefined past the end
at(arr, k) == IF k + 1 \in DOMAIN arr THEN arr[k + 1] ELSE Undefined

\* includes, wrongly matching any registered id that starts with x
includes_prefix(arr, x) == \E k \in DOMAIN arr : startsWith(arr[k], x)

\* Array.prototype.includes
includes(arr, x) == \E k \in DOMAIN arr : arr[k] = x

----------------------------------------------------------------------------
(* MainPage *)

ViewDescriptor(v, b) == [view |-> v, blog |-> b]
Unrendered == ViewDescriptor("unrendered", Undefined)
NoView == ViewDescriptor("undefined", Undefined)

\* pages(), wrongly taking the second "/"-delimited segment as the id
pages_secondSegment(pathname) ==
  IF pathname = ROOT_PATH THEN ViewDescriptor("home-page", Undefined)
  ELSE IF pathname = BLOG_PATH THEN ViewDescriptor("blogs-page", Undefined)
  ELSE IF startsWith(pathname, BLOG_PATH)
    THEN ViewDescriptor("blog-page", at(split(pathname, SLASH), 1))
  ELSE NoView

\* pages(), wrongly matching only the paths under "/blog/"
pages_strictPrefix(pathname) ==
  IF pathname = ROOT_PATH THEN ViewDescriptor("home-page", Undefined)
  ELSE IF pathname = BLOG_PATH THEN ViewDescriptor("blogs-page", Undefined)
  ELSE IF startsWith(pathname, BLOG_PATH \o SLASH)
    THEN ViewDescriptor("blog-page", at(split(pathname, SLASH), 2))
  ELSE NoView

\* MainPage.pages(), a function of window.location.pathname
pages(pathname) ==
  IF pathname = ROOT_PATH THEN ViewDescriptor("home-page", Undefined)
  ELSE IF pathname = BLOG_PATH THEN ViewDescriptor("blogs-page", Undefined)
  ELSE IF startsWith(pathname, BLOG_PATH)
    THEN ViewDescriptor("blog-page", at(split(pathname, SLASH), 2))
  ELSE NoView

\* blog="${blog}" : the attribute a template expression sets, read back as
\* the String property; undefined is committed as the empty string
attr(v) == IF v = Undefined THEN EMPTY ELSE v

----------------------------------------------------------------------------
(* BlogPage *)

\* Converter.makeHtml: showdown's conversion, kept opaque
makeHtml(md) == <<"<html>">> \o md

\* render(), wrongly testing blogMd against undefined
render_undefinedTest(md) ==
  IF md = Undefined
    THEN [directive |-> "html", arg |-> <<"That page doesn't exist!">>]
    ELSE [directive |-> "unsafeHTML", arg |-> makeHtml(md)]

\* BlogPage.render()
render(md) ==
  IF md = EMPTY
    THEN [directive |-> "html", arg |-> <<"That page doesn't exist!">>]
    ELSE [directive |-> "unsafeHTML", arg |-> makeHtml(md)]

\* parse, wrongly starting the body at the third line
parse_bodyFromThird(content) ==
  LET lines == split(content, NL)
  IN  [headers |-> slice(lines, 0, 3), blogMd |-> join(sliceFrom(lines, 2), NL)]

\* parse, wrongly reading three header lines whether or not they exist
parse_fixedHeaders(content) ==
  LET lines == split(content, NL)
  IN  [headers |-> <<at(lines, 0), at(lines, 1), at(lines, 2)>>,
       blogMd |-> join(sliceFrom(lines, 3), NL)]

\* the lines of init() after the await: the document split into headers and body
parse(content) ==
  LET lines == split(content, NL)
  IN  [headers |-> slice(lines, 0, 3), blogMd |-> join(sliceFrom(lines, 3), NL)]

Instances == DOMAIN pc

\* new BlogPage() with the blog attribute set, and its first render
construct(b) ==
  /\ blog' = Append(blog, b)
  /\ blogMd' = Append(blogMd, EMPTY)
  /\ headers' = Append(headers, <<Undefined>>)
  /\ pc' = Append(pc, "constructed")
  /\ connected' = Append(connected, TRUE)
  /\ fetchCount' = Append(fetchCount, 0)
  /\ rendered' = Append(rendered, render(EMPTY))
  /\ UNCHANGED <<fetches, unhandledRejections>>

\* MainPage.render(): pages() picks the view, a blog-page element is created
Load ==
  /\ page = Unrendered
  /\ page' = pages(location)
  /\ IF pages(location).view = "blog-page"
       THEN construct(attr(pages(location).blog))
       ELSE UNCHANGED instanceVars
  /\ UNCHANGED <<location, blogs, assets>>

\* firstUpdated(), wrongly running init() again on an instance whose
\* resolution has ended without content
firstUpdated_retry(i) ==
  /\ pc[i] \in {"constructed", "returned", "rejected"}
  /\ IF ~includes(blogs, blog[i])
       THEN /\ blogMd' = [blogMd EXCEPT ![i] = EMPTY]
            /\ rendered' = [rendered EXCEPT ![i] = render(EMPTY)]
            /\ pc' = [pc EXCEPT ![i] = "returned"]
            /\ UNCHANGED <<fetches, fetchCount>>
       ELSE /\ fetches' = fetches \cup {i}
            /\ fetchCount' = [fetchCount EXCEPT ![i] = Min(@ + 1, 2)]
            /\ pc' = [pc EXCEPT ![i] = "awaiting"]
            /\ UNCHANGED <<blogMd, rendered>>
  /\ UNCHANGED <<location, page, blogs, assets, blog, headers, connected,
                 unhandledRejections>>

\* BlogPage.firstUpdated() -> init(), up to its return or its await
firstUpdated(i) ==
  /\ pc[i] = "constructed"
  /\ IF ~includes(blogs, blog[i])
       THEN /\ blogMd' = [blogMd EXCEPT ![i] = EMPTY]
            /\ rendered' = [rendered EXCEPT ![i] = render(EMPTY)]
            /\ pc' = [pc EXCEPT ![i] = "returned"]
            /\ UNCHANGED <<fetches, fetchCount>>
       ELSE /\ fetches' = fetches \cup {i}
            /\ fetchCount' = [fetchCount EXCEPT ![i] = @ + 1]
            /\ pc' = [pc EXCEPT ![i] = "awaiting"]
            /\ UNCHANGED <<blogMd, rendered>>
  /\ UNCHANGED <<location, page, blogs, assets, blog, headers, connected,
                 unhandledRejections>>

\* init() resumed with the imported document
FetchSucceed(i) ==
  /\ i \in fetches
  /\ assets[blog[i]] # Missing
  /\ fetches' = fetches \ {i}
  /\ blogMd' = [blogMd EXCEPT ![i] = parse(assets[blog[i]]).blogMd]
  /\ headers' = [headers EXCEPT ![i] = parse(assets[blog[i]]).headers]
  /\ rendered' = [rendered EXCEPT ![i] = render(parse(assets[blog[i]]).blogMd)]
  /\ pc' = [pc EXCEPT ![i] = "done"]
  /\ UNCHANGED <<location, page, blogs, assets, blog, connected, fetchCount,
                 unhandledRejections>>

\* the rejection, wrongly swallowed with init() left suspended
FetchFail_hang(i) ==
  /\ i \in fetches
  /\ fetches' = fetches \ {i}
  /\ UNCHANGED <<location, page, blogs, assets, blog, blogMd, headers, pc,
                 connected, fetchCount, rendered, unhandledRejections>>

\* import() rejected: init() throws at the await, and firstUpdated() has
\* dropped the promise init() returned
FetchFail(i) ==
  /\ i \in fetches
  /\ fetches' = fetches \ {i}
  /\ pc' = [pc EXCEPT ![i] = "rejected"]
  /\ unhandledRejections' = unhandledRejections \cup {i}
  /\ UNCHANGED <<location, page, blogs, assets, blog, blogMd, headers,
                 connected, fetchCount, rendered>>

----------------------------------------------------------------------------
(* Inputs *)

IdPool == {FOO, BAR}

Registries ==
  {r \in UNION {[1..n -> IdPool] : n \in 0..Cardinality(IdPool)} :
     \A a, b \in DOMAIN r : a # b => r[a] # r[b]}

\* documents of no line content, one line, exactly three lines, four lines
StoreDocs ==
  { EMPTY,
    <<"t">>,
    <<"t", "\n", "d", "\n", "g">>,
    <<"t", "\n", "d", "\n", "g", "\n", "H", "i">> }

NavPaths ==
  { ROOT_PATH,
    BLOG_PATH,
    BLOG_PATH \o SLASH \o FOO,
    BLOG_PATH \o SLASH \o BAR,
    BLOG_PATH \o <<"x">>,
    <<"/", "u", "n", "k", "n", "o", "w", "n">> }

\* the browser loads another page: the document and its elements are torn
\* down.  An element's first update runs in the microtask after it is
\* connected, so no instance is still waiting for firstUpdated() by then.
Navigate(p) ==
  /\ page # Unrendered
  /\ \A i \in Instances : pc[i] # "constructed"
  /\ Len(pc) < MaxInstances
  /\ location' = p
  /\ page' = Unrendered
  /\ connected' = [i \in DOMAIN connected |-> FALSE]
  /\ UNCHANGED <<blogs, assets, blog, blogMd, headers, pc, fetches, fetchCount,
                 rendered, unhandledRejections>>

NoInstances ==
  /\ blog = <<>>
  /\ blogMd = <<>>
  /\ headers = <<>>
  /\ pc = <<>>
  /\ connected = <<>>
  /\ fetches = {}
  /\ fetchCount = <<>>
  /\ rendered = <<>>
  /\ unhandledRejections = {}

Init ==
  /\ location \in NavPaths
  /\ page = Unrendered
  /\ blogs \in Registries
  /\ assets \in [IdPool -> StoreDocs \cup {Missing}]
  /\ NoInstances

Next ==
  \/ Load
  \/ \E p \in NavPaths : Navigate(p)
  \/ \E i \in Instances : firstUpdated(i)
  \/ \E i \in Instances : FetchSucceed(i)
  \/ \E i \in Instances : FetchFail(i)

Spec == Init /\ [][Next]_vars

----------------------------------------------------------------------------
(* One page load, no navigation: the router over many paths, the resolver  *)
(* over many documents                                                     *)

\* segments a path is built from
Segments ==
  { EMPTY, BLOG, BLOG \o <<"x">>, <<"b", "l">>, FOO, BAR,
    <<"u", "n", "k", "n", "o", "w", "n">> }

RECURSIVE PathsOf(_)
PathsOf(n) ==
  IF n = 0 THEN {EMPTY}
  ELSE {p \o SLASH \o s : p \in PathsOf(n - 1), s \in Segments}

\* every path of 1..MaxSegments segments; a pathname always starts with "/"
RouterPaths == UNION {PathsOf(n) : n \in 1..MaxSegments}

DocChars == {"a", "\n"}

\* every document of at most MaxDocLen characters
AllDocs == UNION {[1..n -> DocChars] : n \in 0..MaxDocLen}

NextLoad ==
  \/ Load
  \/ \E i \in Instances : firstUpdated(i)
  \/ \E i \in Instances : FetchSucceed(i)
  \/ \E i \in Instances : FetchFail(i)

InitRouter ==
  /\ location \in RouterPaths
  /\ page = Unrendered
  /\ blogs = <<FOO>>
  /\ assets = [id \in IdPool |-> IF id = FOO THEN <<"t">> ELSE Missing]
  /\ NoInstances

SpecRouter == InitRouter /\ [][NextLoad]_vars

InitResolve ==
  /\ location = BLOG_PATH \o SLASH \o FOO
  /\ page = Unrendered
  /\ blogs = <<FOO>>
  /\ \E d \in AllDocs : assets = [id \in IdPool |-> IF id = FOO THEN d ELSE Missing]
  /\ NoInstances

SpecResolve == InitResolve /\ [][NextLoad]_vars

\* the document store answers every fetch it was given
LiveSpec ==
  Spec /\ \A i \in 1..MaxInstances : WF_vars(FetchFail(i) \/ FetchSucceed(i))

----------------------------------------------------------------------------
(* Vocabulary of the claims *)

Registered(id) == \E k \in DOMAIN blogs : blogs[k] = id

Placeholder == [directive |-> "html", arg |-> <<"That page doesn't exist!">>]

\* the state of a Post View instance, in the words of the design
State(p) ==
  CASE p = "constructed" -> "Unresolved"
    [] p = "awaiting" -> "Resolving"
    [] p = "done" -> "Resolved"
    [] p \in {"returned", "rejected"} -> "NotFound"

Terminal == {"Resolved", "NotFound"}

\* the positions of the "/" characters of a path
Slashes(path) == {k \in 1..Len(path) : path[k] = "/"}

\* id is the third "/"-delimited segment of path: what lies between the
\* second "/" and the next one (or the end); Undefined when there is none
ThirdSegmentIs(path, id) ==
  IF Cardinality(Slashes(path)) < 2 THEN id = Undefined
  ELSE LET second == CHOOSE k \in Slashes(path) :
                        Cardinality({j \in Slashes(path) : j < k}) = 1
           after == {k \in Slashes(path) : k > second} \cup {Len(path) + 1}
           stop == CHOOSE k \in after : \A j \in after : k <= j
       IN  id = SubSeq(path, second + 1, stop - 1)

\* path begins with the five characters of "/blog"
BeginsWithBlog(path) ==
  Len(path) >= 5 /\ \A k \in 1..5 : path[k] = BLOG_PATH[k]

\* the number of lines of a document: one more than its newline characters
NumLines(doc) == 1 + Cardinality({k \in 1..Len(doc) : doc[k] = "\n"})

NoNewline(line) == \A k \in 1..Len(line) : line[k] # "\n"

----------------------------------------------------------------------------
(* Claims *)

\* C1: an instance whose id is not in the registry issues no fetch, in any
\* state: its fetch counter is 0, no import is in flight, and once init()
\* has run it is in the NotFound outcome with the empty body.
C1_UnregisteredNeverFetched ==
  \A i \in Instances :
    ~Registered(blog[i]) =>
      /\ fetchCount[i] = 0
      /\ i \notin fetches
      /\ blogMd[i] = EMPTY
      /\ pc[i] \in {"constructed", "returned"}

C1_Witness ==
  \E i \in Instances :
    /\ blog[i] = BAR
    /\ blogs = <<FOO>>
    /\ pc[i] = "returned"
    /\ assets[BAR] # Missing

\* C2: "/" selects the home view, "/blog" the index view, and every other
\* path starting with "/blog" the post view whose id is the third
\* "/"-delimited segment; "/blog/foo" and "/blog/foo/bar" both give "foo".
C2_RouterRules ==
  page # Unrendered =>
    /\ location = ROOT_PATH => page.view = "home-page"
    /\ location = BLOG_PATH => page.view = "blogs-page"
    /\ (BeginsWithBlog(location) /\ location # BLOG_PATH) =>
         page.view = "blog-page" /\ ThirdSegmentIs(location, page.blog)
    /\ location \in {BLOG_PATH \o SLASH \o FOO,
                     BLOG_PATH \o SLASH \o FOO \o SLASH \o BAR} =>
         page = ViewDescriptor("blog-page", FOO)

C2_Witness ==
  /\ location = BLOG_PATH \o SLASH \o FOO \o SLASH \o BAR
  /\ page = ViewDescriptor("blog-page", FOO)
  /\ blog = <<FOO>>

\* C5: a document of at least 3 lines resolves to exactly 3 headers, none
\* holding a newline, and a body such that the headers and the body, put
\* back together with newlines, are the document.
C5_HeadersAndBody ==
  \A i \in Instances :
    (pc[i] = "done" /\ NumLines(assets[blog[i]]) >= 3) =>
      /\ Len(headers[i]) = 3
      /\ \A k \in 1..3 : NoNewline(headers[i][k])
      /\ assets[blog[i]] =
           headers[i][1] \o NL \o headers[i][2] \o NL \o headers[i][3]
             \o (IF NumLines(assets[blog[i]]) > 3 THEN NL \o blogMd[i] ELSE EMPTY)
      /\ NumLines(assets[blog[i]]) = 3 => blogMd[i] = EMPTY

C5_Witness ==
  \E i \in Instances :
    /\ pc[i] = "done"
    /\ assets[blog[i]] = <<"a", "\n", "\n", "\n", "\n">>
    /\ headers[i] = << <<"a">>, EMPTY, EMPTY >>
    /\ blogMd[i] = NL

\* C7: what an instance shows is the placeholder exactly when its body is
\* the empty string, and the renderer's output for the body otherwise.
C7_PlaceholderIffEmpty ==
  \A i \in Instances :
    /\ rendered[i] = Placeholder <=> blogMd[i] = EMPTY
    /\ blogMd[i] # EMPTY =>
         rendered[i] = [directive |-> "unsafeHTML", arg |-> makeHtml(blogMd[i])]

C7_Witness ==
  \E i, j \in Instances :
    /\ pc[i] = "done" /\ blogMd[i] = EMPTY /\ rendered[i] = Placeholder
    /\ pc[j] = "done" /\ blogMd[j] # EMPTY /\ rendered[j] # Placeholder

\* C8: a document of fewer than 3 lines resolves without error to the lines
\* it has as headers and to the empty body.
C8_ShortDocument ==
  \A i \in Instances :
    (pc[i] = "done" /\ NumLines(assets[blog[i]]) < 3) =>
      /\ blogMd[i] = EMPTY
      /\ Len(headers[i]) = NumLines(assets[blog[i]])
      /\ \A k \in 1..Len(headers[i]) : NoNewline(headers[i][k])
      /\ assets[blog[i]] =
           (IF Len(headers[i]) = 1 THEN headers[i][1]
            ELSE headers[i][1] \o NL \o headers[i][2])
      /\ i \notin unhandledRejections

C8_Witness ==
  \E i \in Instances :
    /\ pc[i] = "done"
    /\ assets[blog[i]] = EMPTY
    /\ headers[i] = <<EMPTY>>
    /\ blogMd[i] = EMPTY

\* C9: the router yields no view exactly for the paths that are neither "/"
\* nor begin with "/blog"; a path that begins with "/blog" and is not
\* "/blog" yields the post view, third segment or not.
C9_NoViewExactly ==
  page # Unrendered =>
    /\ page = NoView <=> (location # ROOT_PATH /\ ~BeginsWithBlog(location))
    /\ (BeginsWithBlog(location) /\ location # BLOG_PATH) => page.view = "blog-page"
    /\ location \in {BLOG_PATH \o <<"x">>, BLOG_PATH \o SLASH} =>
         page.view = "blog-page" /\ Len(pc) = 1

C9_Witness ==
  /\ location = BLOG_PATH \o <<"x">>
  /\ page = ViewDescriptor("blog-page", Undefined)
  /\ blog = <<EMPTY>>

\* C3: a registered id whose fetch fails ends with the empty body and the
\* placeholder, like an unregistered id, and the failure does not leave
\* init() as an unhandled rejection.
C3_FetchFailureContained ==
  \A i \in Instances :
    pc[i] = "rejected" =>
      /\ blogMd[i] = EMPTY
      /\ rendered[i] = Placeholder
      /\ i \notin unhandledRejections

C6_Lifecycle ==
  [][/\ \A i \in DOMAIN pc' \ DOMAIN pc :
          pc'[i] = "constructed" /\ blogMd'[i] = EMPTY /\ fetchCount'[i] = 0
     /\ \A i \in Instances :
          /\ fetchCount'[i] <= 1
          /\ fetchCount'[i] # fetchCount[i] => State(pc[i]) = "Unresolved"
          /\ pc'[i] # pc[i] =>
               <<State(pc[i]), State(pc'[i])>> \in
                  { <<"Unresolved", "Resolving">>, <<"Unresolved", "NotFound">>,
                    <<"Resolving", "Resolved">>, <<"Resolving", "NotFound">> }
          /\ State(pc[i]) \in Terminal =>
               /\ pc'[i] = pc[i]
               /\ blogMd'[i] = blogMd[i]
               /\ headers'[i] = headers[i]
               /\ fetchCount'[i] = fetchCount[i]
               /\ i \notin fetches']_vars

C6_Witness ==
  \E i, j \in Instances :
    /\ pc[i] = "rejected" /\ fetchCount[i] = 1
    /\ pc[j] = "done" /\ fetchCount[j] = 1 /\ blogMd[j] # EMPTY

\* C10: with the store answering every fetch, an instance suspended in
\* init() eventually ends Resolved or NotFound; an unregistered id ends
\* NotFound in the call of init() itself, with no fetch to wait for.
C10_ResolutionEnds ==
  /\ \A i \in 1..MaxInstances :
       (i \in DOMAIN pc /\ pc[i] = "awaiting")
         ~> (i \in DOMAIN pc /\ State(pc[i]) \in Terminal)
  /\ [](\A i \in Instances :
          (~Registered(blog[i]) /\ pc[i] # "constructed") =>
             State(pc[i]) = "NotFound" /\ i \notin fetches)

C10_Witness ==
  \E i, j \in Instances :
    /\ ~Registered(blog[i]) /\ pc[i] = "returned"
    /\ Registered(blog[j]) /\ pc[j] = "done" /\ ~connected[j]

====
